---- MODULE Spec2Model ----
(***************************************************************************)
(* A model of the QEMU Monitor Protocol client of                          *)
(* src/corten_scripts/qmp.py (class QEMUMonitorProtocol), run under        *)
(* Python 3 (src/corten_scripts/pin_cpu.py:1).                             *)
(*                                                                         *)
(* The session object is shared by the callers in Callers.  A call is     *)
(* split at each readline() of the socket file, the only place where it    *)
(* can block; everything a method does between two readlines is one step.  *)
(* The peer (the monitor) is the environment: it sends whole lines.        *)
(***************************************************************************)
EXTENDS Naturals, Integers, Sequences, FiniteSets, TLC

\* ------------------------------------------------------------------ bounds
MaxEvents == 2      \* events the peer sends in one behaviour
MaxCmds == 2        \* commands written to the socket in one behaviour
MaxAnomalies == 1   \* unsolicited or malformed lines the peer sends
MaxInbox == 2       \* lines sent by the peer and not read yet
MaxAddrLen == 4     \* characters of an endpoint string

Callers == {"t1", "t2"}
MainCaller == "t1"

\* ---------------------------------------------------------------- messages
\* A decoded JSON object is a record; `key in obj` is key \in DOMAIN obj.
None == [None |-> TRUE]                 \* Python's None
NoArgs == [dict |-> {}]                 \* the empty dict {}
SomeArgs == [dict |-> {<<"id", "a1">>}] \* the dict {"id": "a1"}

\* The calls the callers make: cmd(name), command(name),
\* command(name, **kwds).
CmdCalls == {<<"query-status", None>>}
CommandCalls == {<<"query-status", NoArgs>>, <<"stop", SomeArgs>>}

GreetingDoc == [QMP |-> "v1"]
ReturnDoc(p) == [return |-> p]
ErrorDoc == [error |-> [class |-> "GenericError", desc |-> "d1"]]
EventDoc(n) == [event |-> n]
GarbageDoc == [garbage |-> TRUE]         \* stands for a line that is not JSON
Unread == [unread |-> TRUE]             \* nothing read yet

\* A line on the wire.  valid: json.loads accepts it.  re: the number of the
\* command the peer sent it in answer to (0: not an answer to a command).
Line(v, d, r) == [valid |-> v, doc |-> d, re |-> r]

VARIABLES
    sock,        \* self.__sock: "fresh" | "listening" | "connected" | "closed"
    blocking,    \* the socket's blocking mode
    timeout,     \* the socket has a positive timeout (settimeout)
    address,     \* the endpoint string given to QMPQuery, and what
                 \* __get_address made of it
    sockfile,    \* self.__sockfile: "unset" | "open" | "closed"
    events,      \* self.__events
    inbox,       \* lines the peer has sent that no readline has returned yet
    outbox,      \* commands written by sendall that the peer has not answered
    peer,        \* "open" | "shut" (orderly shutdown) | "reset" (gone)
    pc,          \* per caller: where its call stands
    local,       \* per caller: the call's local variables
    result,      \* per caller: how its last call ended
    call,        \* per caller: history of the current or last call
    nsent,       \* history: commands written so far
    capsent,     \* history: qmp_capabilities commands written so far
    evsent,      \* history: events the peer has sent
    anomalies,   \* history: unsolicited or malformed lines the peer has sent
    greeted,     \* history: the peer has sent its greeting
    popped,      \* history: events removed from self.__events
    negotiated,  \* history: __negotiate_capabilities has returned the greeting
    raced,       \* history: two calls have been in progress at the same time
    held         \* the list a get_events call returned, kept by its caller

vars == <<sock, blocking, timeout, address, sockfile, events, inbox, outbox,
          peer, pc, local, result, call, nsent, capsent, evsent, anomalies,
          greeted, popped, negotiated, raced, held>>

sessVars == <<sock, blocking, timeout, address, sockfile, events>>
peerVars == <<inbox, peer, evsent, anomalies, greeted>>
callVars == <<pc, local, result, call, raced, held>>
histVars == <<nsent, capsent, popped, negotiated>>

\* ------------------------------------------------------------- outcomes
NoResult == [kind |-> "none", exc |-> "", val |-> None, args |-> <<>>]
Returned(v) == [kind |-> "returned", exc |-> "", val |-> v, args |-> <<>>]
Raised(e, a) == [kind |-> "raised", exc |-> e, val |-> None, args |-> a]

\* An endpoint string is a sequence of characters; "/tmp/q" is a socket path.
DefaultAddress == <<"/", "t", "m", "p", "/", "q">>
Unresolved == [arg |-> DefaultAddress, res |-> NoResult]

\* get_events returns self.__events itself (line 181).  A caller that keeps
\* it holds the list object: live, while self.__events is still that object
\* (what it holds is then `events`); frozen, with the content it had, once
\* clear_events has bound self.__events to a new list.  was: its content
\* when get_events returned it.
NoHeld == [kept |-> FALSE, live |-> FALSE, was |-> <<>>, frozen |-> <<>>]

NoLocal == [wait |-> FALSE, greeting |-> None]
\* The history of a call: its arguments; seq, the number of the command it
\* wrote (0: none); q0, the event list when it began; nread, the events it
\* has read; got and re, what its last __json_read returned (Unread: it has
\* not returned; None: no data) and the command that line answers (-1: no
\* line); waited, whether it went on to the blocking read of line 155/175.
NoCall == [op |-> "none", name |-> "", args |-> NoArgs, wait |-> FALSE,
           seq |-> 0, q0 |-> <<>>, nread |-> 0, re |-> -1, got |-> Unread,
           waited |-> FALSE]
NewCall(op, name, args) == [NoCall EXCEPT !.op = op, !.name = name,
                                          !.args = args, !.q0 = events]

Init ==
    /\ sock \in {"fresh", "listening"}
    /\ blocking = TRUE
    /\ timeout = FALSE
    /\ address = Unresolved
    /\ sockfile = "unset"
    /\ events = <<>>
    /\ inbox = <<>>
    /\ outbox = <<>>
    /\ peer = "open"
    /\ pc = [c \in Callers |-> "idle"]
    /\ local = [c \in Callers |-> NoLocal]
    /\ result = [c \in Callers |-> NoResult]
    /\ call = [c \in Callers |-> NoCall]
    /\ nsent = 0
    /\ capsent = 0
    /\ evsent = 0
    /\ anomalies = 0
    /\ greeted = FALSE
    /\ popped = 0
    /\ negotiated = FALSE
    /\ raced = FALSE
    /\ held = NoHeld

\* ------------------------------------------------------ pure code fragments
\* A bug: `if args is not None`, so the empty dict counts.
TruthyNotNone(v) == v # None

\* `if args:` (line 128): None and the empty dict are falsy.
Truthy(v) == v # None /\ v # NoArgs

\* cmd, lines 127-131 (id is never passed by this module's callers).
BuildCmd(name, args) ==
    IF Truthy(args) THEN [execute |-> name, arguments |-> args]
    ELSE [execute |-> name]

\* json.dumps (line 112): the members of the command object, in insertion
\* order, each a pair of key and value; strings and dicts of strings are
\* written as they are.
Dumps(doc) ==
    IF "arguments" \in DOMAIN doc
    THEN <<<<"execute", doc.execute>>, <<"arguments", doc.arguments>>>>
    ELSE <<<<"execute", doc.execute>>>>

\* The peer's json.loads of what was written: the object with the members
\* that are there.
Loads(text) ==
    IF \E i \in DOMAIN text : text[i][1] = "arguments"
    THEN [execute |-> (CHOOSE m \in {text[i] : i \in DOMAIN text} :
                          m[1] = "execute")[2],
          arguments |-> (CHOOSE m \in {text[i] : i \in DOMAIN text} :
                          m[1] = "arguments")[2]]
    ELSE [execute |-> (CHOOSE m \in {text[i] : i \in DOMAIN text} :
                          m[1] = "execute")[2]]

\* A bug: the test of line 68 is left out, no line counts as an event.
IsEventNever(resp) == FALSE

\* __json_read, line 68.
IsEvent(resp) == "event" \in DOMAIN resp

\* A bug: the `continue` of line 71 is lost, so an event ends every read.
ReturnsLineAlways(resp, only_event) == TRUE

\* __json_read, lines 70-72: an event ends the read only with only_event.
ReturnsLine(resp, only_event) == ~IsEvent(resp) \/ only_event

\* A bug: the greeting is only tested for None, not for its QMP key.
GreetingOkAnyLine(greeting) == greeting # None

\* __negotiate_capabilities, line 54.
GreetingOk(greeting) == greeting # None /\ "QMP" \in DOMAIN greeting

\* __negotiate_capabilities, lines 58-60.  `"return" in None` is a TypeError.
CapabilitiesResult(resp, greeting) ==
    IF resp = None THEN Raised("TypeError", <<>>)
    ELSE IF "return" \in DOMAIN resp THEN Returned(greeting)
    ELSE Raised("QMPCapabilitiesError", <<>>)

\* A bug: the test of line 136 is inverted, so a success is raised.
CommandResultInverted(ret) ==
    IF ret = None THEN Raised("TypeError", <<>>)
    ELSE IF "error" \notin DOMAIN ret THEN Raised("Exception", <<>>)
    ELSE Raised("KeyError", <<"return">>)

\* A bug: the test of line 136 is left out, so an error response is indexed
\* for its missing `return`.
CommandResultUnchecked(ret) ==
    IF ret = None THEN Raised("TypeError", <<>>)
    ELSE IF "return" \in DOMAIN ret THEN Returned(ret.return)
    ELSE Raised("KeyError", <<"return">>)

\* command, lines 135-138.  `'error' in None` is a TypeError.
CommandResult(ret) ==
    IF ret = None THEN Raised("TypeError", <<>>)
    ELSE IF "error" \in DOMAIN ret THEN Raised("Exception", <<ret.error.desc>>)
    ELSE IF "return" \in DOMAIN ret THEN Returned(ret.return)
    ELSE Raised("KeyError", <<"return">>)

\* A bug: the last event is taken instead of the first.
PullFinishLast(evs) ==
    IF evs = <<>> THEN [res |-> Raised("IndexError", <<>>), ev |-> evs]
    ELSE [res |-> Returned(evs[Len(evs)]), ev |-> SubSeq(evs, 1, Len(evs) - 1)]

\* pull_event, lines 156-158: [res, ev] from the event list.
PullFinish(evs) ==
    IF evs = <<>> THEN [res |-> Raised("IndexError", <<>>), ev |-> evs]
    ELSE [res |-> Returned(Head(evs)), ev |-> Tail(evs)]

\* get_events, lines 174-181, after the blocking read returned ret.
GetEventsWaitResult(ret, evs) ==
    IF ret = None
    THEN Raised("QMPConnectError", <<"Error while reading from socket">>)
    ELSE Returned(evs)

\* pull_event / get_events, lines 154 and 174.
MustWait(evs, wait) == evs = <<>> /\ wait

\* A bug: the failure of sendall is swallowed and the call goes on to read.
CanWriteAlways == TRUE

\* sendall, line 112, succeeds on a connected socket whose peer is there.
\* Otherwise it raises OSError, and the handler's err[0] (line 114) raises
\* TypeError: an OSError is not subscriptable in Python 3.
CanWrite == sock = "connected" /\ peer # "reset"

\* pc = "done": the call has just ended and result holds how.  The next step
\* hands the result to the caller, before anything else happens.
Quiet == \A c \in Callers : pc[c] # "done"

\* ---------------------------------------------------------------- the peer
PeerUp == Quiet /\ sock = "connected" /\ peer = "open"
Send(l) == Len(inbox) < MaxInbox /\ inbox' = Append(inbox, l)

\* The peer's answers to command number n: success, with a payload that names
\* the command, or an error.
AnswersTo(n) == {ReturnDoc(n), ErrorDoc}

\* The monitor's greeting, the first line of a connection.
PeerGreet ==
    /\ PeerUp /\ ~greeted
    /\ Send(Line(TRUE, GreetingDoc, 0))
    /\ greeted' = TRUE
    /\ UNCHANGED <<sessVars, callVars, histVars, outbox, peer, evsent,
                   anomalies>>

PeerEvent ==
    /\ PeerUp /\ evsent < MaxEvents
    /\ Send(Line(TRUE, EventDoc(evsent + 1), 0))
    /\ evsent' = evsent + 1
    /\ UNCHANGED <<sessVars, callVars, histVars, outbox, peer, anomalies,
                   greeted>>

\* The peer answers the oldest command it has not answered.
PeerAnswer ==
    /\ PeerUp /\ outbox # <<>>
    /\ \E doc \in AnswersTo(Head(outbox).seq) :
          Send(Line(TRUE, doc, Head(outbox).seq))
    /\ outbox' = Tail(outbox)
    /\ UNCHANGED <<sessVars, callVars, histVars, peer, evsent, anomalies,
                   greeted>>

\* A line that is not JSON, or a response to no command.
PeerAnomaly ==
    /\ PeerUp /\ anomalies < MaxAnomalies
    /\ \E l \in {Line(FALSE, GarbageDoc, 0), Line(TRUE, ReturnDoc(0), 0)} :
          Send(l)
    /\ anomalies' = anomalies + 1
    /\ UNCHANGED <<sessVars, callVars, histVars, outbox, peer, evsent, greeted>>

\* Orderly shutdown of the peer's sending side: readline returns '' once
\* the lines already sent are read.
PeerShutdown ==
    /\ PeerUp
    /\ peer' = "shut"
    /\ UNCHANGED <<sessVars, callVars, histVars, inbox, outbox, evsent,
                   anomalies, greeted>>

\* The peer is gone: as a shutdown for reads, and writes hit a broken pipe.
PeerReset ==
    /\ Quiet /\ sock = "connected" /\ peer # "reset"
    /\ peer' = "reset"
    /\ UNCHANGED <<sessVars, callVars, histVars, inbox, outbox, evsent,
                   anomalies, greeted>>

PeerStep ==
    \/ PeerGreet
    \/ PeerEvent
    \/ PeerAnswer
    \/ PeerAnomaly
    \/ PeerShutdown
    \/ PeerReset

\* ------------------------------------------------------------- the callers
Busy(c) == \E d \in Callers \ {c} : pc[d] # "idle"
Idle(c) == Quiet /\ pc[c] = "idle"

Return(c) ==
    /\ pc[c] = "done"
    /\ pc' = [pc EXCEPT ![c] = "idle"]
    /\ result' = [result EXCEPT ![c] = NoResult]
    /\ call' = [call EXCEPT ![c] = NoCall]
    /\ UNCHANGED <<sessVars, peerVars, histVars, outbox, local, raced, held>>

\* The caller's own variables as a call starts, goes on or ends at once.
\* The caller takes the list that get_events returned and keeps it.
Keep(c) ==
    /\ pc[c] = "done"
    /\ call[c].op = "get_events" /\ result[c].kind = "returned"
    /\ held' = [kept |-> TRUE, live |-> TRUE, was |-> result[c].val,
                frozen |-> <<>>]
    /\ pc' = [pc EXCEPT ![c] = "idle"]
    /\ result' = [result EXCEPT ![c] = NoResult]
    /\ call' = [call EXCEPT ![c] = NoCall]
    /\ UNCHANGED <<sessVars, peerVars, histVars, outbox, local, raced>>

\* What the kept list holds now.
HeldNow == IF held.live THEN events ELSE held.frozen

SetCaller(c, p, loc, res, cl) ==
    /\ pc' = [pc EXCEPT ![c] = p]
    /\ local' = [local EXCEPT ![c] = loc]
    /\ result' = [result EXCEPT ![c] = res]
    /\ call' = [call EXCEPT ![c] = cl]
    /\ raced' = (raced \/ Busy(c))

\* A bug: connect and accept succeed on a socket in any state.
EstablishesAlways(from) == {TRUE}

\* sock.connect / sock.accept (lines 85, 99) on a socket left non-blocking
\* may fail with BlockingIOError; on a socket in another state they fail.
Establishes(from) ==
    IF sock = from THEN (IF blocking THEN {TRUE} ELSE BOOLEAN) ELSE {FALSE}

\* connect, lines 76-88.
Connect(c, negotiate) ==
    /\ Idle(c)
    /\ \E ok \in Establishes("fresh") :
          IF ok
          THEN /\ sock' = "connected"
               /\ sockfile' = "open"
               /\ SetCaller(c, IF negotiate THEN "greeting" ELSE "done",
                            NoLocal,
                            IF negotiate THEN NoResult ELSE Returned(None),
                            NewCall("connect", "", NoArgs))
          ELSE /\ UNCHANGED <<sock, sockfile>>
               /\ SetCaller(c, "done", NoLocal, Raised("OSError", <<>>),
                            NewCall("connect", "", NoArgs))
    /\ UNCHANGED <<peerVars, histVars, held, blocking, timeout, address, events,
                   outbox>>

\* accept, lines 90-101: the accepted socket is a new, blocking one.
Accept(c) ==
    /\ Idle(c)
    /\ \E ok \in Establishes("listening") :
          IF ok
          THEN /\ sock' = "connected"
               /\ blocking' = TRUE
               /\ timeout' = FALSE
               /\ sockfile' = "open"
               /\ SetCaller(c, "greeting", NoLocal, NoResult,
                            NewCall("accept", "", NoArgs))
          ELSE /\ UNCHANGED <<sock, blocking, timeout, sockfile>>
               /\ SetCaller(c, "done", NoLocal, Raised("OSError", <<>>),
                            NewCall("accept", "", NoArgs))
    /\ UNCHANGED <<peerVars, histVars, held, address, events, outbox>>

\* cmd and cmd_obj up to the first readline, lines 127-132 and 111-117.
SendCommand(c, op, name, args) ==
    /\ Idle(c)
    /\ IF CanWrite
       THEN /\ nsent - capsent < MaxCmds
            /\ outbox' = Append(outbox, [seq |-> nsent + 1,
                                         doc |-> Dumps(BuildCmd(name, args))])
            /\ nsent' = nsent + 1
            /\ SetCaller(c, op, NoLocal, NoResult,
                         [NewCall(op, name, args) EXCEPT !.seq = nsent + 1])
       ELSE /\ UNCHANGED <<outbox, nsent>>
            /\ SetCaller(c, "done", NoLocal, Raised("TypeError", <<>>),
                         NewCall(op, name, args))
    /\ UNCHANGED <<sessVars, peerVars, held, capsent, popped, negotiated>>

\* cmd, lines 119-132.
Cmd(c, name, args) == SendCommand(c, "cmd", name, args)

\* command, lines 134-138: the keyword arguments are a dict.
Command(c, name, kwds) == SendCommand(c, "command", name, kwds)

\* pull_event and get_events up to the first readline, lines 146-148 and
\* 166-168.  setblocking raises OSError on a closed socket; self.__sockfile
\* raises AttributeError before connect or accept has set it.
StartDrain(c, op, wait) ==
    /\ Idle(c)
    /\ IF sock = "closed"
       THEN /\ UNCHANGED <<blocking, timeout>>
            /\ SetCaller(c, "done", NoLocal, Raised("OSError", <<>>),
                         [NewCall(op, "", NoArgs) EXCEPT !.wait = wait])
       ELSE /\ blocking' = FALSE
            /\ timeout' = FALSE
            /\ IF sockfile = "unset"
               THEN SetCaller(c, "done", NoLocal,
                              Raised("AttributeError", <<>>),
                              [NewCall(op, "", NoArgs) EXCEPT !.wait = wait])
               ELSE SetCaller(c, IF op = "pull_event" THEN "drain_pull"
                                 ELSE "drain_get",
                              [NoLocal EXCEPT !.wait = wait], NoResult,
                              [NewCall(op, "", NoArgs) EXCEPT !.wait = wait])
    /\ UNCHANGED <<peerVars, histVars, held, sock, address, sockfile, events,
                   outbox>>

\* pull_event, lines 140-158.
PullEvent(c, wait) == StartDrain(c, "pull_event", wait)

\* get_events, lines 160-181.
GetEvents(c, wait) == StartDrain(c, "get_events", wait)

\* clear_events, lines 183-187.
ClearEvents(c) ==
    /\ Idle(c)
    /\ events' = <<>>
    /\ popped' = popped + Len(events)
    /\ SetCaller(c, "done", NoLocal, Returned(None),
                 NewCall("clear_events", "", NoArgs))
    /\ held' = IF held.live
               THEN [held EXCEPT !.live = FALSE, !.frozen = events]
               ELSE held
    /\ UNCHANGED <<peerVars, sock, blocking, timeout, address, sockfile,
                   outbox, nsent, capsent, negotiated>>

\* close, lines 189-191: socket.close() may be repeated; self.__sockfile
\* raises AttributeError before connect or accept has set it.
Close(c) ==
    /\ Idle(c)
    /\ sock' = "closed"
    /\ IF sockfile = "unset"
       THEN /\ UNCHANGED sockfile
            /\ SetCaller(c, "done", NoLocal, Raised("AttributeError", <<>>),
                         NewCall("close", "", NoArgs))
       ELSE /\ sockfile' = "closed"
            /\ SetCaller(c, "done", NoLocal, Returned(None),
                         NewCall("close", "", NoArgs))
    /\ UNCHANGED <<peerVars, histVars, held, blocking, timeout, address, events,
                   outbox>>

\* settimeout, lines 195-196: None is blocking mode, 0 is non-blocking
\* mode, a positive number is blocking mode with a timeout.
TimeoutValues == {[blk |-> TRUE, tmo |-> FALSE], [blk |-> FALSE, tmo |-> FALSE],
                  [blk |-> TRUE, tmo |-> TRUE]}

SetTimeout(c, t) ==
    /\ Idle(c)
    /\ IF sock = "closed"
       THEN /\ UNCHANGED <<blocking, timeout>>
            /\ SetCaller(c, "done", NoLocal, Raised("OSError", <<>>),
                         NewCall("settimeout", "", NoArgs))
       ELSE /\ blocking' = t.blk
            /\ timeout' = t.tmo
            /\ SetCaller(c, "done", NoLocal, Returned(None),
                         NewCall("settimeout", "", NoArgs))
    /\ UNCHANGED <<peerVars, histVars, held, sock, address, sockfile, events,
                   outbox>>

\* --------------------------------------------------------- after a readline
\* What a step leaves behind: the caller's pc, result and locals, the event
\* list, the blocking mode, the negotiated flag, a command to write (or None).
Base(evs) == [pc |-> "done", res |-> NoResult, loc |-> NoLocal, ev |-> evs,
              blk |-> blocking, neg |-> negotiated, write |-> None]
Done(evs, res) == [Base(evs) EXCEPT !.res = res]
Stay(c, evs) == [Base(evs) EXCEPT !.pc = pc[c], !.loc = local[c]]

Reading == {"greeting", "capresp", "cmd", "command", "drain_pull",
            "drain_get", "wait_pull", "wait_get"}

\* The only_event argument of the __json_read call the caller is in
\* (lines 52, 117, 148, 168: False; lines 155, 175: True).
OnlyEvent(p) == p \in {"wait_pull", "wait_get"}

\* __negotiate_capabilities, lines 52-57, and the write of cmd_obj.
AfterGreeting(greeting, evs) ==
    IF ~GreetingOk(greeting) THEN Done(evs, Raised("QMPConnectError", <<>>))
    ELSE IF ~CanWrite THEN Done(evs, Raised("TypeError", <<>>))
    ELSE [Base(evs) EXCEPT !.pc = "capresp",
                           !.loc = [NoLocal EXCEPT !.greeting = greeting],
                           !.write = BuildCmd("qmp_capabilities", None)]

\* __negotiate_capabilities, lines 57-60.
AfterCapabilities(resp, greeting, evs) ==
    LET res == CapabilitiesResult(resp, greeting)
    IN  [Done(evs, res) EXCEPT !.neg = (negotiated \/ res.kind = "returned")]

\* pull_event, lines 153-158, after the non-blocking read.
AfterDrainPull(evs, wait) ==
    IF sock = "closed" THEN Done(evs, Raised("OSError", <<>>))
    ELSE IF MustWait(evs, wait)
    THEN [Base(evs) EXCEPT !.pc = "wait_pull", !.blk = TRUE,
                           !.loc = [NoLocal EXCEPT !.wait = wait]]
    ELSE [Done(PullFinish(evs).ev, PullFinish(evs).res) EXCEPT !.blk = TRUE]

\* get_events, lines 173-181, after the non-blocking read.
AfterDrainGet(evs, wait) ==
    IF sock = "closed" THEN Done(evs, Raised("OSError", <<>>))
    ELSE IF MustWait(evs, wait)
    THEN [Base(evs) EXCEPT !.pc = "wait_get", !.blk = TRUE,
                           !.loc = [NoLocal EXCEPT !.wait = wait]]
    ELSE [Done(evs, Returned(evs)) EXCEPT !.blk = TRUE]

\* The caller of __json_read goes on with what it returned: r is None (no
\* data, line 66) or the decoded line (line 72).
After(c, r, evs) ==
    CASE pc[c] = "greeting" -> AfterGreeting(r, evs)
      [] pc[c] = "capresp" -> AfterCapabilities(r, local[c].greeting, evs)
      [] pc[c] = "cmd" -> Done(evs, Returned(r))
      [] pc[c] = "command" -> Done(evs, CommandResult(r))
      [] pc[c] = "drain_pull" -> AfterDrainPull(evs, local[c].wait)
      [] pc[c] = "drain_get" -> AfterDrainGet(evs, local[c].wait)
      [] pc[c] = "wait_pull" -> Done(PullFinish(evs).ev, PullFinish(evs).res)
      [] pc[c] = "wait_get" -> Done(evs, GetEventsWaitResult(r, evs))

\* A bug: readline returns for a line only, never at the end of the stream.
CanReadLinesOnly == inbox # <<>>

\* readline (line 64) returns at once when a line is there, when the peer has
\* shut down (''), or when the socket is non-blocking ('' in Python 3, whose
\* text layer turns "would block" into an empty read); else it blocks.
CanRead == inbox # <<>> \/ peer # "open" \/ ~blocking

\* One turn of the loop of __json_read (lines 63-72) and, when it returns or
\* raises, the rest of its caller up to the next readline.
ReadStep(c) ==
    /\ Quiet /\ pc[c] \in Reading
    /\ sockfile = "open" => CanRead
    /\ LET has == sockfile = "open" /\ inbox # <<>>
           line == Head(inbox)
           \* readline on a closed file, or json.loads (line 67): ValueError
           bad == sockfile # "open" \/ (has /\ ~line.valid)
           isev == has /\ line.valid /\ IsEvent(line.doc)
           evs == IF isev THEN Append(events, line.doc) ELSE events
           loops == isev /\ ~ReturnsLine(line.doc, OnlyEvent(pc[c]))
           \* what the read ends with: the line, or None for no data
           ret == IF has THEN line.doc ELSE None
           \* readline after a timeout: OSError, which the handler of lines
           \* 149-150 and 169-170 turns into TypeError by its err[0]
           dead == sockfile = "timedout"
           n == IF dead
                THEN Done(events,
                          Raised(IF pc[c] \in {"drain_pull", "drain_get"}
                                 THEN "TypeError" ELSE "OSError", <<>>))
                ELSE IF bad THEN Done(events, Raised("ValueError", <<>>))
                ELSE IF loops THEN Stay(c, evs)
                ELSE After(c, ret, evs)
       IN  /\ inbox' = IF has THEN Tail(inbox) ELSE inbox
           /\ pc' = [pc EXCEPT ![c] = n.pc]
           /\ local' = [local EXCEPT ![c] = n.loc]
           /\ result' = [result EXCEPT ![c] = n.res]
           /\ events' = n.ev
           /\ popped' = popped + (Len(evs) - Len(n.ev))
           /\ blocking' = n.blk
           /\ negotiated' = n.neg
           /\ outbox' = IF n.write = None THEN outbox
                        ELSE Append(outbox,
                                    [seq |-> nsent + 1,
                                     doc |-> Dumps(n.write)])
           /\ nsent' = IF n.write = None THEN nsent ELSE nsent + 1
           /\ capsent' = IF n.write = None THEN capsent ELSE capsent + 1
           /\ call' = [call EXCEPT
                 ![c].nread = @ + (IF isev THEN 1 ELSE 0),
                 ![c].re = IF loops THEN @ ELSE IF has THEN line.re ELSE -1,
                 ![c].got = IF loops THEN @ ELSE ret,
                 ![c].seq = IF n.write = None THEN @ ELSE nsent + 1,
                 ![c].waited = @ \/ OnlyEvent(n.pc)]
    /\ UNCHANGED <<sock, timeout, address, sockfile, peer, evsent, anomalies,
                   greeted, raced, held>>

\* readline (line 64) on a socket with a timeout, when no line comes in time:
\* socket.timeout is raised through every caller, and the file object
\* refuses every later read ("cannot read from timed out object").
ReadTimeout(c) ==
    /\ Quiet /\ pc[c] \in Reading
    /\ sockfile = "open" /\ blocking /\ timeout
    /\ inbox = <<>> /\ peer = "open"
    /\ sockfile' = "timedout"
    /\ pc' = [pc EXCEPT ![c] = "done"]
    /\ local' = [local EXCEPT ![c] = NoLocal]
    /\ result' = [result EXCEPT ![c] = Raised("TimeoutError", <<>>)]
    /\ UNCHANGED <<peerVars, histVars, held, sock, blocking, timeout, address,
                   events, outbox, call, raced>>

\* ------------------------------------------------------------ specifications
CallerStep(c) ==
    \/ \E negotiate \in BOOLEAN : Connect(c, negotiate)
    \/ Accept(c)
    \/ \E cm \in CmdCalls : Cmd(c, cm[1], cm[2])
    \/ \E cm \in CommandCalls : Command(c, cm[1], cm[2])
    \/ \E wait \in BOOLEAN : PullEvent(c, wait)
    \/ \E wait \in BOOLEAN : GetEvents(c, wait)
    \/ ClearEvents(c)
    \/ Close(c)
    \/ ReadStep(c)
    \/ Return(c)

\* A session used by one caller, as in pin_cpu.py.
Next == CallerStep(MainCaller) \/ PeerStep
Spec == Init /\ [][Next]_vars

\* A session shared by the callers, each making the calls that read the
\* stream in blocking mode (handshake, command, pull_event with wait), and a
\* peer that keeps to the protocol.  Nothing stands between the callers:
\* the class holds no lock.
SharedStep(c) ==
    \/ Connect(c, TRUE)
    \/ \E cm \in CommandCalls : Command(c, cm[1], cm[2])
    \/ PullEvent(c, TRUE)
    \/ ReadStep(c)
    \/ Return(c)

NextShared ==
    \/ \E c \in Callers : SharedStep(c)
    \/ PeerGreet
    \/ PeerEvent
    \/ PeerAnswer
SpecShared == Init /\ [][NextShared]_vars

\* A session used by one caller that also sets timeouts, with a peer that
\* keeps to the protocol.
TimeoutStep(c) ==
    \/ \E negotiate \in BOOLEAN : Connect(c, negotiate)
    \/ \E cm \in CmdCalls : Cmd(c, cm[1], cm[2])
    \/ \E cm \in CommandCalls : Command(c, cm[1], cm[2])
    \/ \E wait \in BOOLEAN : PullEvent(c, wait)
    \/ \E wait \in BOOLEAN : GetEvents(c, wait)
    \/ \E t \in TimeoutValues : SetTimeout(c, t)
    \/ ReadStep(c)
    \/ ReadTimeout(c)
    \/ Return(c)

NextTimeout ==
    \/ TimeoutStep(MainCaller)
    \/ PeerGreet
    \/ PeerEvent
    \/ PeerAnswer
SpecTimeout == Init /\ [][NextTimeout]_vars

\* A session used by one caller that reads the events with get_events and
\* keeps the lists it returns, with a peer that keeps to the protocol.
PeekStep(c) ==
    \/ \E negotiate \in BOOLEAN : Connect(c, negotiate)
    \/ \E wait \in BOOLEAN : GetEvents(c, wait)
    \/ \E wait \in BOOLEAN : PullEvent(c, wait)
    \/ ClearEvents(c)
    \/ ReadStep(c)
    \/ Keep(c)
    \/ Return(c)

NextPeek ==
    \/ PeekStep(MainCaller)
    \/ PeerGreet
    \/ PeerEvent
    \/ PeerAnswer
SpecPeek == Init /\ [][NextPeek]_vars

\* A session used by one caller that connects and sends commands, with a
\* peer that keeps to the protocol or shuts the connection down.  The
\* caller's thread keeps running, so a readline that can return does; and
\* the peer, while a command waits for it, in the end answers or shuts
\* down.
LiveStep(c) ==
    \/ \E negotiate \in BOOLEAN : Connect(c, negotiate)
    \/ \E cm \in CmdCalls : Cmd(c, cm[1], cm[2])
    \/ \E cm \in CommandCalls : Command(c, cm[1], cm[2])
    \/ ReadStep(c)
    \/ Return(c)

NextLive ==
    \/ LiveStep(MainCaller)
    \/ PeerGreet
    \/ PeerEvent
    \/ PeerAnswer
    \/ PeerShutdown
SpecLive ==
    /\ Init /\ [][NextLive]_vars
    /\ WF_vars(ReadStep(MainCaller))
    /\ WF_vars(PeerAnswer \/ PeerShutdown)

\* ------------------------------------------------------------ QMPQuery
\* The characters of the endpoint strings tried: a letter, a slash, the
\* separator, two digits and a sign.
Digits == {"4", "7"}
Chars == {"h", "/", ":", "-"} \cup Digits
AddressStrings == UNION {[1..n -> Chars] : n \in 0..MaxAddrLen}

\* A bug: arg.split(':', 1), which cuts at the first separator only.
SplitFirst(s) ==
    IF \A i \in DOMAIN s : s[i] # ":" THEN <<s>>
    ELSE LET i == CHOOSE i \in DOMAIN s :
                     s[i] = ":" /\ \A j \in 1..(i - 1) : s[j] # ":"
         IN  <<SubSeq(s, 1, i - 1), SubSeq(s, i + 1, Len(s))>>

\* arg.split(':'), line 215: the segments between the separators.
RECURSIVE Split(_)
Split(s) ==
    IF \A i \in DOMAIN s : s[i] # ":" THEN <<s>>
    ELSE LET i == CHOOSE i \in DOMAIN s :
                     s[i] = ":" /\ \A j \in 1..(i - 1) : s[j] # ":"
         IN  <<SubSeq(s, 1, i - 1)>> \o Split(SubSeq(s, i + 1, Len(s)))

\* int(), line 218, accepts an optional sign followed by digits (of the
\* characters tried here).
Unsigned(s) == IF s # <<>> /\ s[1] = "-" THEN Tail(s) ELSE s
IsInt(s) ==
    /\ Unsigned(s) # <<>>
    /\ \A i \in DOMAIN Unsigned(s) : Unsigned(s)[i] \in Digits
DigitVal(ch) == IF ch = "4" THEN 4 ELSE 7
RECURSIVE NatOf(_)
NatOf(s) ==
    IF s = <<>> THEN 0
    ELSE 10 * NatOf(SubSeq(s, 1, Len(s) - 1)) + DigitVal(s[Len(s)])
IntOf(s) == IF s[1] = "-" THEN 0 - NatOf(Tail(s)) ELSE NatOf(s)

\* __get_address, lines 210-223.
GetAddress(arg) ==
    LET addr == Split(arg)
    IN  IF Len(addr) = 2
        THEN IF IsInt(addr[2])
             THEN Returned([host |-> addr[1], port |-> IntOf(addr[2])])
             ELSE Raised("ValueError", <<>>)
        ELSE Returned([path |-> arg])

\* QMPQuery.__init__, line 207, as far as the call of __get_address.
QueryInit ==
    /\ address.res = NoResult
    /\ address' = [address EXCEPT !.res = GetAddress(address.arg)]
    /\ UNCHANGED <<peerVars, callVars, histVars, sock, blocking, timeout,
                   sockfile, events, outbox>>

\* A QMPQuery made with any endpoint string.
InitQuery ==
    /\ address \in {[arg |-> a, res |-> NoResult] : a \in AddressStrings}
    /\ sock = "fresh"
    /\ blocking = TRUE
    /\ timeout = FALSE
    /\ sockfile = "unset"
    /\ events = <<>>
    /\ inbox = <<>>
    /\ outbox = <<>>
    /\ peer = "open"
    /\ pc = [c \in Callers |-> "idle"]
    /\ local = [c \in Callers |-> NoLocal]
    /\ result = [c \in Callers |-> NoResult]
    /\ call = [c \in Callers |-> NoCall]
    /\ nsent = 0
    /\ capsent = 0
    /\ evsent = 0
    /\ anomalies = 0
    /\ greeted = FALSE
    /\ popped = 0
    /\ negotiated = FALSE
    /\ raced = FALSE
    /\ held = NoHeld

NextQuery == QueryInit
SpecQuery == InitQuery /\ [][NextQuery]_vars

\* ------------------------------------------------------------------ claims
Executes == {"cmd", "command"}
Handshakes == {"connect", "accept"}
\* The exception classes that tell of a lost connection: QMPConnectError
\* (line 18) and socket.error (line 74), which is OSError.
ConnectionErrors == {"QMPConnectError", "OSError"}

\* The call of c has just ended.
Ended(c) == pc[c] = "done"

\* The line that ended the read of c's call is the peer's answer to the
\* command that this call wrote.
OwnAnswer(c) == call[c].seq > 0 /\ call[c].re = call[c].seq

\* The events numbered a+1 .. b, in the order the peer sent them.
EventIds(a, b) == [i \in 1..(b - a) |-> EventDoc(a + i)]

\* The events the peer has sent that no readline has returned yet.
Unread_events == Cardinality({i \in 1..Len(inbox) :
                    inbox[i].valid /\ IsEvent(inbox[i].doc)})

\* C1: when the peer answers a command with a success response and no event
\* comes before it, cmd returns that response, command returns its `return`
\* payload (the peer's payload for command n is n), and the event list is
\* as it was when the call began.
C1_ExecuteReturnsPayload ==
    \A c \in Callers :
        (/\ Ended(c) /\ call[c].op \in Executes
         /\ OwnAnswer(c) /\ "return" \in DOMAIN call[c].got
         /\ call[c].nread = 0)
        => /\ result[c].kind = "returned"
           /\ call[c].op = "command" => result[c].val = call[c].seq
           /\ call[c].op = "cmd" => result[c].val = ReturnDoc(call[c].seq)
           /\ events = call[c].q0

C1_Witness ==
    \E c \in Callers :
        /\ Ended(c) /\ call[c].op = "command" /\ negotiated
        /\ OwnAnswer(c) /\ "return" \in DOMAIN call[c].got
        /\ call[c].nread = 0 /\ result[c].kind = "returned"

\* C2: when the peer sends N events and then the response to a command, the
\* call returns that response and never an event, the N events are appended
\* to the event list in the order sent, and pull_event hands out the events
\* in that order: the k-th event removed is the k-th event sent, and every
\* event sent is unread, queued or removed, none lost or duplicated.
C2_EventsThenResponse ==
    /\ \A c \in Callers :
          (Ended(c) /\ call[c].op \in Executes /\ call[c].got # Unread)
          => ~IsEvent(call[c].got)
    /\ \A c \in Callers :
          (Ended(c) /\ call[c].op \in Executes /\ OwnAnswer(c))
          => /\ call[c].op = "cmd" => result[c] = Returned(call[c].got)
             /\ (call[c].op = "command" /\ "return" \in DOMAIN call[c].got)
                   => (result[c].kind = "returned"
                       /\ result[c].val = call[c].seq)
             /\ events = call[c].q0 \o
                    EventIds(popped + Len(call[c].q0),
                             popped + Len(call[c].q0) + call[c].nread)
    /\ \A c \in Callers :
          (Ended(c) /\ call[c].op = "pull_event"
                    /\ result[c].kind = "returned")
          => result[c].val = EventDoc(popped)
    /\ events = EventIds(popped, popped + Len(events))
    /\ evsent = popped + Len(events) + Unread_events

C2_Witness ==
    \E c \in Callers :
        /\ Ended(c) /\ call[c].op \in Executes /\ OwnAnswer(c)
        /\ call[c].nread = 2 /\ result[c].kind = "returned"
        /\ events = <<EventDoc(1), EventDoc(2)>>

C4_CapabilitiesError ==
    \A c \in Callers :
        (/\ Ended(c) /\ call[c].op \in Handshakes /\ call[c].seq > 0
         /\ call[c].got # GarbageDoc
         /\ "return" \notin DOMAIN call[c].got)
        => /\ result[c].kind = "raised"
           /\ result[c].exc = "QMPCapabilitiesError"
           /\ ~negotiated

\* The first read of a handshake, and the line it meets.
FirstRead(c) == pc[c] = "greeting" /\ call[c].nread = 0
Stepped(c) == call'[c] # call[c]
Absent == inbox = <<>>
NotJson == ~Absent /\ ~Head(inbox).valid
NoQmpKey == ~Absent /\ "QMP" \notin DOMAIN Head(inbox).doc
EventLine == ~Absent /\ Head(inbox).valid /\ IsEvent(Head(inbox).doc)

NeverReady ==
    /\ sock \notin {"fresh", "listening"}
    /\ capsent = 0
    /\ \A c \in Callers : pc[c] # "greeting"

C6_NoEventIsNone ==
    \A c \in Callers :
        (/\ Ended(c) /\ call[c].op = "pull_event" /\ ~call[c].wait
         /\ call[c].q0 = <<>> /\ call[c].nread = 0 /\ call[c].got = None)
        => /\ result[c].kind = "returned"
           /\ result[c].val = None
           /\ events = <<>>

\* C7: pull_event(wait=True) that went on to the blocking read returns the
\* event that read met; when the read met the end of the stream instead, it
\* fails with a connection error.
C7_WaitEndsWithEvent ==
    \A c \in Callers :
        (Ended(c) /\ call[c].op = "pull_event" /\ call[c].waited)
        => /\ IsEvent(call[c].got)
                 => (result[c].kind = "returned"
                     /\ result[c].val = call[c].got)
           /\ call[c].got = None
                 => (result[c].kind = "raised"
                     /\ result[c].exc \in ConnectionErrors)

\* C8: when the peer shuts down after a command was written and before its
\* response (the read returns None), cmd and command fail with a connection
\* error: they return no value and raise nothing else.
C8_ClosedBeforeResponse ==
    \A c \in Callers :
        (/\ Ended(c) /\ call[c].op \in Executes /\ call[c].seq > 0
         /\ call[c].got = None /\ peer = "shut")
        => /\ result[c].kind = "raised"
           /\ result[c].exc \in ConnectionErrors

\* The peer answered c's command with an error response.
AnsweredWithError(c) ==
    /\ Ended(c) /\ call[c].op = "command"
    /\ OwnAnswer(c) /\ "error" \in DOMAIN call[c].got

\* C9, as claimed: the exception raised for an error response carries the
\* peer's class and desc.
C9_ErrorCarriesClassAndDesc ==
    \A c \in Callers :
        AnsweredWithError(c)
        => /\ result[c].kind = "raised"
           /\ \E i \in DOMAIN result[c].args :
                 result[c].args[i] = call[c].got.error.class
           /\ \E i \in DOMAIN result[c].args :
                 result[c].args[i] = call[c].got.error.desc

\* C9, amended: the exception raised for an error response is a plain
\* Exception that carries the peer's desc alone.  The socket stays
\* connected, the event list keeps what it held plus the events read, and a
\* command whose own answer is a success, after an error or not, returns
\* that answer's payload.
C9_ErrorCarriesDesc ==
    \A c \in Callers :
        /\ AnsweredWithError(c)
           => /\ result[c] = Raised("Exception", <<call[c].got.error.desc>>)
              /\ sock = "connected" /\ sockfile = "open"
              /\ events = call[c].q0 \o
                     EventIds(popped + Len(call[c].q0),
                              popped + Len(call[c].q0) + call[c].nread)
        /\ (/\ Ended(c) /\ call[c].op = "command"
            /\ OwnAnswer(c) /\ "return" \in DOMAIN call[c].got)
           => (result[c].kind = "returned" /\ result[c].val = call[c].seq)

C9_Witness ==
    \E c \in Callers :
        /\ AnsweredWithError(c) /\ negotiated
        /\ result[c].kind = "raised" /\ events # <<>>

\* C10: no two calls that read the stream (handshake, cmd or command,
\* pull_event) are in progress at the same time, and a command that returns
\* returns the answer to the command it wrote.
C10_Serialized ==
    /\ \A c, d \in Callers :
          c # d => ~(pc[c] \in Reading /\ pc[d] \in Reading)
    /\ \A c \in Callers :
          (Ended(c) /\ call[c].op = "command" /\ result[c].kind = "returned")
          => call[c].re = call[c].seq

\* The commands written whose response no read has consumed: those the peer
\* has not answered, and those whose answer is still on the stream.
Outstanding ==
    Len(outbox) + Cardinality({i \in 1..Len(inbox) : inbox[i].re > 0})

\* C11: on a negotiated session, whatever cmd, command, pull_event,
\* get_events and settimeout calls were made, at most one command has been
\* written whose response has not been consumed, and a cmd or command call
\* that returns a response returns the one the peer sent for the command
\* this call wrote.
C11_OneOutstanding ==
    negotiated
    => /\ Outstanding <= 1
       /\ \A c \in Callers :
             (/\ Ended(c) /\ call[c].op \in Executes
              /\ result[c].kind = "returned" /\ call[c].re >= 0)
             => call[c].re = call[c].seq

\* The exception that indexing the empty event list raises (line 156).
NoEventError == "IndexError"

\* A response: a document with the key `return` or the key `error`.
IsResponse(doc) == "return" \in DOMAIN doc \/ "error" \in DOMAIN doc

\* What __json_read returned to c is a response.
GotResponse(c) == IsResponse(call[c].got) /\ ~IsEvent(call[c].got)

\* C12: when pull_event(wait=True) goes on to the blocking read and the
\* line it reads is a response, not an event, the call fails, and not with
\* the error of an empty event list.
C12_ResponseWhileWaiting ==
    \A c \in Callers :
        (/\ Ended(c) /\ call[c].op = "pull_event" /\ call[c].waited
         /\ GotResponse(c))
        => /\ result[c].kind = "raised"
           /\ result[c].exc # NoEventError

\* How far the socket has come: not connected, connected, closed.
Rank(s) == CASE s \in {"fresh", "listening"} -> 0
             [] s = "connected" -> 1
             [] s = "closed" -> 2

\* How far the handshake has come: Disconnected, Connected, Negotiating
\* (qmp_capabilities written), Ready.
Stage ==
    IF negotiated THEN 3
    ELSE IF capsent > 0 THEN 2
    ELSE IF Rank(sock) > 0 THEN 1
    ELSE 0

\* C13: the socket and the handshake only move forward; a call starts to
\* read the greeting only as it connects a socket that was not connected,
\* so at most once; qmp_capabilities is written at most once, and only by
\* the call that read the greeting; negotiated, once true, stays true.
C13_HandshakeOnce ==
    [][/\ Rank(sock') >= Rank(sock)
       /\ Stage' >= Stage
       /\ negotiated => negotiated'
       /\ capsent' >= capsent /\ capsent' <= 1
       /\ \A c \in Callers :
             (pc'[c] = "greeting" /\ pc[c] # "greeting")
             => (Rank(sock) = 0 /\ sock' = "connected")
       /\ capsent' > capsent
             => \E c \in Callers :
                   pc[c] = "greeting" /\ pc'[c] = "capresp"]_vars

C13_Witness ==
    \E c \in Callers :
        /\ Ended(c) /\ call[c].op \in Handshakes /\ negotiated
        /\ capsent = 1 /\ call[c].got = Unread
        /\ result[c].kind = "raised"

\* C14: close succeeds in every state of the session, and leaves the socket
\* closed.
C14_CloseSucceeds ==
    \A c \in Callers :
        (Ended(c) /\ call[c].op = "close")
        => (result[c].kind = "returned" /\ sock = "closed")

\* C15: after a close that closed socket and file, cmd, command, pull_event
\* and get_events fail with a connection error.
C15_FailsAfterClose ==
    \A c \in Callers :
        (/\ Ended(c) /\ sock = "closed" /\ sockfile = "closed"
         /\ call[c].op \in Executes \cup {"pull_event", "get_events"})
        => /\ result[c].kind = "raised"
           /\ result[c].exc \in ConnectionErrors

\* C19: when the non-blocking read of pull_event or get_events has ended,
\* for lack of data or at a response, and the call with it, no event that
\* was there to read is left unread.
C19_DrainTakesAll ==
    \A c \in Callers :
        (/\ Ended(c) /\ call[c].op \in {"pull_event", "get_events"}
         /\ ~call[c].waited /\ (call[c].got = None \/ GotResponse(c)))
        => Unread_events = 0

\* C20: a cmd or command call whose write hits a broken pipe (the socket is
\* connected, the peer is gone) fails with a connection error.
C20_BrokenPipe ==
    \A c \in Callers :
        (/\ Ended(c) /\ call[c].op \in Executes /\ call[c].seq = 0
         /\ sock = "connected" /\ peer = "reset")
        => /\ result[c].kind = "raised"
           /\ result[c].exc \in ConnectionErrors

\* This step's readline returns an event line.
ReadsEvent ==
    /\ inbox # <<>> /\ inbox' = Tail(inbox)
    /\ Head(inbox).valid /\ IsEvent(Head(inbox).doc)

\* This step is a call of clear_events.
Clears == \E c \in Callers : pc[c] = "idle" /\ call'[c].op = "clear_events"

\* This step ends a pull_event call that returns the event e.
Pulls(e) ==
    \E c \in Callers :
        /\ call[c].op = "pull_event" /\ pc'[c] = "done"
        /\ result'[c] = Returned(e)

\* C18: the event list holds, in the order sent and without gaps or
\* duplicates, the events read and not yet removed.  A step that reads an
\* event appends it at the back, once; a pull_event that returns removes
\* the front element and returns it; clear_events empties the list; no
\* other step changes it.
C18_QueueContiguous ==
    [][/\ events = EventIds(popped, popped + Len(events))
       /\ events' = EventIds(popped', popped' + Len(events'))
       /\ IF Clears THEN events' = <<>>
          ELSE LET q == IF ReadsEvent THEN Append(events, Head(inbox).doc)
                        ELSE events
               IN  \/ events' = q /\ popped' = popped
                   \/ /\ q # <<>> /\ events' = Tail(q)
                      /\ Pulls(Head(q)) /\ popped' = popped + 1]_vars

C18_Witness ==
    \E c \in Callers :
        /\ Ended(c) /\ call[c].op = "pull_event"
        /\ Len(call[c].q0) + call[c].nread = 2
        /\ result[c] = Returned(EventDoc(popped))
        /\ events = <<EventDoc(popped + 1)>>

\* The command that c's call wrote is still with the peer, unanswered;
\* Written(c) is what the peer decodes.
InFlight(c) ==
    /\ call[c].op \in Executes /\ call[c].seq > 0
    /\ \E i \in DOMAIN outbox : outbox[i].seq = call[c].seq
Written(c) ==
    Loads((CHOOSE o \in {outbox[i] : i \in DOMAIN outbox} :
              o.seq = call[c].seq).doc)

\* C17, as claimed: the command the peer decodes has the name the caller
\* passed and an `arguments` member equal to the arguments object the
\* caller passed, the empty object included.
C17_RoundTrip ==
    \A c \in Callers :
        (InFlight(c) /\ call[c].args # None)
        => /\ Written(c).execute = call[c].name
           /\ "arguments" \in DOMAIN Written(c)
           /\ Written(c).arguments = call[c].args

\* C17, amended: the command the peer decodes has the name the caller
\* passed; when the arguments object is not empty it has an `arguments`
\* member equal to it; when the arguments are the empty object or None it
\* has no `arguments` member at all.
C17_RoundTripNonEmpty ==
    \A c \in Callers :
        InFlight(c)
        => /\ Written(c).execute = call[c].name
           /\ call[c].args \notin {None, NoArgs}
                 => /\ "arguments" \in DOMAIN Written(c)
                    /\ Written(c).arguments = call[c].args
           /\ call[c].args \in {None, NoArgs}
                 => DOMAIN Written(c) = {"execute"}

C17_Witness ==
    \E c \in Callers :
        /\ InFlight(c) /\ call[c].op = "command"
        /\ call[c].args = SomeArgs
        /\ Written(c) = [execute |-> "stop", arguments |-> SomeArgs]

\* The places of the separator in an endpoint string, and the text before
\* and after a place.
Colons(s) == {i \in DOMAIN s : s[i] = ":"}
Before(s, i) == SubSeq(s, 1, i - 1)
After_(s, i) == SubSeq(s, i + 1, Len(s))
LastColon(s) == CHOOSE i \in Colons(s) : \A j \in Colons(s) : j <= i
Resolved == address.res # NoResult

\* C16, as claimed: a string with exactly one separator and an integer
\* after it gives host and port; a string with a separator and no integer
\* after its last separator fails; every other string gives a path equal
\* to it.
C16_Resolver ==
    Resolved
    => LET s == address.arg
           n == Cardinality(Colons(s))
       IN  IF n = 1 /\ IsInt(After_(s, LastColon(s)))
           THEN address.res =
                    Returned([host |-> Before(s, LastColon(s)),
                              port |-> IntOf(After_(s, LastColon(s)))])
           ELSE IF n >= 1 /\ ~IsInt(After_(s, LastColon(s)))
           THEN address.res.kind = "raised"
           ELSE address.res = Returned([path |-> s])

\* C16, amended: a string with exactly one separator gives host and port
\* when an integer follows the separator and fails with ValueError when
\* none does; every other string, those with two or more separators
\* included, gives a path equal to it.  So "h:47" gives (h, 47), "/h" a
\* path, and "h:h" fails.
C16_ResolverOneColon ==
    Resolved
    => LET s == address.arg
           n == Cardinality(Colons(s))
       IN  /\ IF n = 1
              THEN IF IsInt(After_(s, LastColon(s)))
                   THEN address.res =
                            Returned([host |-> Before(s, LastColon(s)),
                                      port |-> IntOf(After_(s, LastColon(s)))])
                   ELSE address.res = Raised("ValueError", <<>>)
              ELSE address.res = Returned([path |-> s])
           /\ s = <<"h", ":", "4", "7">>
                 => address.res = Returned([host |-> <<"h">>, port |-> 47])
           /\ s = <<"/", "h">> => address.res = Returned([path |-> s])
           /\ s = <<"h", ":", "h">> => address.res.kind = "raised"

C16_Witness ==
    /\ Resolved
    /\ address.arg = <<"h", ":", "4", "7">>
    /\ address.res.kind = "returned"
    /\ address.res.val.port = 47

\* C21: get_events removes no event and keeps their order, the list it
\* returned holds later what it held when it was returned, whatever
\* pull_event removed and whatever events came since, and clear_events
\* leaves the event list empty.
C21_Snapshot ==
    /\ \A c \in Callers :
          (Ended(c) /\ call[c].op = "get_events"
                    /\ result[c].kind = "returned")
          => /\ result[c].val = events
             /\ events = call[c].q0 \o
                    EventIds(popped + Len(call[c].q0),
                             popped + Len(call[c].q0) + call[c].nread)
    /\ \A c \in Callers :
          (Ended(c) /\ call[c].op = "clear_events") => events = <<>>
    /\ held.kept => HeldNow = held.was

\* C22: whenever a pull_event or get_events call on a connected session has
\* ended, by returning or by raising, the socket is in blocking mode.
C22_BlockingRestored ==
    \A c \in Callers :
        (/\ Ended(c) /\ call[c].op \in {"pull_event", "get_events"}
         /\ sock = "connected")
        => blocking

\* C23: every cmd or command call that has written its command ends, when
\* the peer after finitely many events answers or shuts down; and each
\* readline of such a call takes one line, goes on after an event and ends
\* the call after a line that is no event or when there is no data, so that
\* the call reads one line that is no event and none after it.
C23_ExecuteFinishes ==
    /\ \A c \in Callers :
          (pc[c] \in {"cmd", "command"}) ~> (pc[c] = "done")
    /\ [][\A c \in Callers :
             (pc[c] \in {"cmd", "command"} /\ Stepped(c))
             => IF inbox = <<>>
                THEN inbox' = inbox /\ pc'[c] = "done"
                ELSE /\ inbox' = Tail(inbox)
                     /\ (pc'[c] = pc[c]) <=>
                           (/\ Head(inbox).valid
                            /\ "event" \in DOMAIN Head(inbox).doc)
                     /\ pc'[c] \in {pc[c], "done"}]_vars

C23_Witness ==
    \E c \in Callers :
        /\ Ended(c) /\ call[c].op \in Executes /\ call[c].seq > 0
        /\ call[c].nread >= 1 /\ call[c].got = None /\ peer = "shut"

\* C24: an event line read by a handshake, before the greeting or between
\* qmp_capabilities and its response, leaves the handshake where it is and
\* is appended to the event list; a handshake whose greeting and response
\* were good returns the greeting whatever events it read, with these
\* events appended in the order sent; and a later pull_event returns the
\* oldest event not yet removed.
C24_EventsInHandshake ==
    [][/\ \A c \in Callers :
             (/\ pc[c] \in {"greeting", "capresp"} /\ Stepped(c)
              /\ inbox # <<>> /\ Head(inbox).valid
              /\ "event" \in DOMAIN Head(inbox).doc)
             => /\ pc'[c] = pc[c]
                /\ events' = Append(events, Head(inbox).doc)
                /\ result'[c] = NoResult
       /\ \A c \in Callers :
             (/\ Ended(c) /\ call[c].op \in Handshakes
              /\ OwnAnswer(c) /\ "return" \in DOMAIN call[c].got)
             => /\ result[c] = Returned(GreetingDoc)
                /\ negotiated
                /\ events = call[c].q0 \o
                       EventIds(popped + Len(call[c].q0),
                                popped + Len(call[c].q0) + call[c].nread)
       /\ \A c \in Callers :
             (/\ pc'[c] = "done" /\ call'[c].op = "pull_event"
              /\ result'[c].kind = "returned" /\ negotiated)
             => (events # <<>> \/ ReadsEvent)
                /\ result'[c].val = EventDoc(popped + 1)]_vars

C24_Witness ==
    \E c \in Callers :
        /\ Ended(c) /\ call[c].op \in Handshakes /\ negotiated
        /\ call[c].nread = 2 /\ result[c] = Returned(GreetingDoc)
        /\ events = <<EventDoc(1), EventDoc(2)>>

====
